---- MODULE Spec2Model ----
(***************************************************************************)
(* A model of chat-to-video.js (the current script, src/chat-to-video.js   *)
(* lines 351-869): the normalisation of the raw chat records               *)
(* (parseMessages, fetchUserAvatar, preloadEmoji), the layout of a message *)
(* (wrapMessage inside drawMessage), and main: the checks, the encoder     *)
(* sink and the frame loop.                                                *)
(*                                                                         *)
(* Units.  message.time is Number(offsetMs) / 1000.0 seconds; the model    *)
(* keeps every time as the integer number of milliseconds (time = 500      *)
(* stands for 0.5 s).  currentTime = timeFrom + i / frameRate is kept      *)
(* multiplied by frameRate (currentTime = timeFrom * frameRate + i * 1000),*)
(* so that the comparison currentTime >= message.time is exact.            *)
(*                                                                         *)
(* An optional JavaScript value (undefined or a value) is a set with no    *)
(* element or one element.                                                 *)
(***************************************************************************)
EXTENDS Integers, Sequences, FiniteSets, TLC

VARIABLES
    \* ---- main (src/chat-to-video.js 723-869)
    pc,              \* position of main
    messages,        \* the timeline parseMessages returned (line 748)
    argFrom,         \* args['from'], seconds, optional
    argTo,           \* args['to'], seconds, optional
    frameRate,       \* args['frame-rate'] || 8
    height,          \* args['height'] || 400
    timeFrom,        \* line 760, ms
    timeTo,          \* line 761, ms
    currentTime,     \* lines 769 and 861, ms * frameRate
    currentMessageIndex, \* lines 770 and 858 (0-based)
    duration,        \* line 771, ms
    frames,          \* line 801
    i,               \* the loop counter of line 855
    canvas,          \* what the canvas shows: the message indices drawChat drew
    encoder,         \* the ffmpeg command: "off", "running", "ended", "error"
    written,         \* the frames handed to passThroughStream.write, in order
    buffered,        \* frames written and not yet taken by the encoder
    ended,           \* number of passThroughStream.end() calls
    reported,        \* the console.error reports made
    mainResult,      \* what main() resolved to: {} while running
    exitCode,        \* the exit status of the process: {} while running
    \* ---- parseMessages (src/chat-to-video.js 438-510)
    raw,             \* the records readMessages returned
    skipAvatars,     \* args['no-avatars']
    apiKey,          \* whether YOUTUBE_API_KEY is a non-empty string
    ri,              \* how many records the first loop has taken
    result,          \* the messages pushed so far
    imageCache,      \* the keys of imageCache (line 374)
    loadLog,         \* every loadImage / channel lookup made, in order
    outcomes,        \* per record taken: what the iteration did
    pstate,          \* position of parseMessages
    ei,              \* the preload loop: index of the message
    ej,              \* the preload loop: index of the span
    \* ---- drawMessage / wrapMessage (src/chat-to-video.js 580-653)
    wMessage,        \* the spans of the message drawn
    wAuthorWidth,    \* ctx.measureText(author).width
    wWidth,          \* ctx.canvas.width
    messageLines,    \* what wrapMessage returned: {} before the call
    \* ---- drawChat / drawMessage on the canvas (src/chat-to-video.js 580-721)
    cMessages,       \* the messages handed to drawChat: the spans of each
    cWidth,          \* ctx.canvas.width
    cHeight,         \* ctx.canvas.height
    chatBackground,  \* CHAT_BACKGROUND (line 765): "opaque" or "translucent"
    pixels,          \* the canvas: what was painted, in order, since it was last covered
    ctx,             \* the context: ty (the translation), fillStyle, font, saved (the stack)
    renders          \* per drawChat call made: its index, the blocks drawn, pixels and ctx after it

mainVars == <<pc, messages, argFrom, argTo, frameRate, height, timeFrom, timeTo,
              currentTime, currentMessageIndex, duration, frames, i, canvas,
              encoder, written, buffered, ended, reported, mainResult, exitCode>>

parseVars == <<raw, skipAvatars, apiKey, ri, result, imageCache, loadLog, outcomes,
               pstate, ei, ej>>

wrapVars == <<wMessage, wAuthorWidth, wWidth, messageLines>>

drawVars == <<cMessages, cWidth, cHeight, chatBackground, pixels, ctx, renders>>

vars == <<mainVars, parseVars, wrapVars, drawVars>>

----------------------------------------------------------------------------
(* Bounds of the model *)

MaxMsgs == 2
SinkBound == 2
MaxRecords == 2
MaxSpans == 2
MaxChat == 3
MaxRenders == 2

(* Program constants *)

AVATAR_SIZE == 24
LINE_HEIGHT == 24
EMOJI_SIZE == 16
PaddingMs == 2000
DefaultFrameRate == 8
DefaultHeight == 400

(* The inputs the runs are drawn from *)

Times == {0, 500, 1000}
ArgsFrom == {{}, {0}, {1}, {4}}
ArgsTo == {{}, {0}, {1}, {2}}
FrameRates == {1, 2, DefaultFrameRate}
Heights == {LINE_HEIGHT, DefaultHeight}

\* a message as parseMessages pushes it (lines 492-497)
MakeMessage(author, avatar, text, time) ==
    [author |-> author, avatar |-> avatar, text |-> text, time |-> time]

Message(t) == MakeMessage({"Ann"}, {}, {<<>>}, t)

SeqsUpTo(S, n) == UNION {[1..k -> S] : k \in 0..n}

Timelines == {[k \in 1..Len(s) |-> Message(s[k])] : s \in SeqsUpTo(Times, MaxMsgs)}

----------------------------------------------------------------------------
(* Helpers of main *)

\* Number(arg) || default : undefined gives NaN, and NaN and 0 are falsy
NumberOr(arg, default) ==
    IF arg = {} THEN default
    ELSE LET n == CHOOSE x \in arg : TRUE
         IN  IF n = 0 THEN default ELSE n * 1000

RECURSIVE FindFrom(_, _, _)
FindFrom(msgs, time, k) ==
    IF k > Len(msgs) THEN Len(msgs) - 1
    ELSE IF msgs[k].time > time THEN k - 1
    ELSE FindFrom(msgs, time, k + 1)

\* findMessageIndexAtTime: the 0-based index of the first message later than
\* time, or the last index
findMessageIndexAtTime(msgs, time) == FindFrom(msgs, time, 1)

\* a loop bound one too large
FrameCountOneMore(rate, dur) == (rate * dur) \div 1000 + 1

\* Math.floor(frameRate * duration), duration in ms
FrameCount(rate, dur) == (rate * dur) \div 1000

\* timeFrom + (k / frameRate), times frameRate
TimeOfFrame(from, rate, k) == from * rate + k * 1000

\* the bound of the index compared with <= instead of <
RevealCondPastEnd(msgs, idx, rate, ct) ==
    /\ idx <= Len(msgs)
    /\ idx < Len(msgs) => ct >= msgs[idx + 1].time * rate

\* currentMessageIndex < messages.length && currentTime >= messages[currentMessageIndex].time
RevealCond(msgs, idx, rate, ct) ==
    /\ idx < Len(msgs)
    /\ ct >= msgs[idx + 1].time * rate

\* the test with < instead of <=
InvalidDurationStrict(dur) == dur < 0

\* line 772: duration <= 0
InvalidDuration(dur) == dur <= 0

\* a loop bound one too large
maxMessagesShownOneMore(h) == h \div LINE_HEIGHT + 1

\* Math.floor(ctx.canvas.height / LINE_HEIGHT)
maxMessagesShown(h) == h \div LINE_HEIGHT

RECURSIVE DrawFrom(_, _, _, _)
DrawFrom(msgs, idx, j, m) ==
    IF j >= m THEN <<>>
    ELSE IF idx - j >= 0 /\ idx - j < Len(msgs)
         THEN <<idx - j>> \o DrawFrom(msgs, idx, j + 1, m)
         ELSE DrawFrom(msgs, idx, j + 1, m)

\* drawChat: the background, then messages idx, idx-1, ... for j below
\* maxMessagesShown, an index with no message skipped
drawChat(msgs, idx, h) == DrawFrom(msgs, idx, 0, maxMessagesShown(h))

----------------------------------------------------------------------------
(* main *)

\* the runs in general
MainInputs ==
    /\ messages \in Timelines
    /\ argFrom \in ArgsFrom
    /\ argTo \in ArgsTo
    /\ frameRate \in FrameRates
    /\ height \in Heights

\* one run of a minute: --from 0 --to 60 at the default frame rate
LongRun ==
    /\ messages = <<Message(500)>>
    /\ argFrom = {0}
    /\ argTo = {60}
    /\ frameRate = DefaultFrameRate
    /\ height = DefaultHeight

\* main at line 749: parseMessages has returned the timeline
InitMain ==
    /\ pc = "check"
    /\ (MainInputs \/ LongRun)
    /\ timeFrom = 0
    /\ timeTo = 0
    /\ currentTime = 0
    /\ currentMessageIndex = 0
    /\ duration = 0
    /\ frames = 0
    /\ i = 0
    /\ canvas = <<>>
    /\ encoder = "off"
    /\ written = <<>>
    /\ buffered = 0
    /\ ended = 0
    /\ reported = {}
    /\ mainResult = {}
    /\ exitCode = {}
    /\ raw = <<>>
    /\ skipAvatars = TRUE
    /\ apiKey = FALSE
    /\ ri = 0
    /\ result = messages
    /\ imageCache = {}
    /\ loadLog = <<>>
    /\ outcomes = <<>>
    /\ pstate = "returned"
    /\ ei = 0
    /\ ej = 0
    /\ wMessage = <<>>
    /\ wAuthorWidth = 0
    /\ wWidth = 0
    /\ messageLines = {}
    /\ cMessages = <<>>
    /\ cWidth = 0
    /\ cHeight = DefaultHeight
    /\ chatBackground = "opaque"
    /\ pixels = <<>>
    /\ ctx = [ty |-> 0, fillStyle |-> "black", font |-> "default", saved |-> <<>>]
    /\ renders = <<>>

\* lines 749-752
MainCheckMessages ==
    /\ pc = "check"
    /\ IF Len(messages) = 0
       THEN /\ reported' = reported \cup {"Failed to read messages"}
            /\ mainResult' = {"false"}
            /\ pc' = "returned"
       ELSE /\ pc' = "setup"
            /\ UNCHANGED <<reported, mainResult>>
    /\ UNCHANGED <<messages, argFrom, argTo, frameRate, height, timeFrom, timeTo,
                   currentTime, currentMessageIndex, duration, frames, i, canvas,
                   encoder, written, buffered, ended, exitCode>>
    /\ UNCHANGED parseVars
    /\ UNCHANGED wrapVars
    /\ UNCHANGED drawVars

\* lines 755-775
MainSetup ==
    /\ pc = "setup"
    /\ LET maxTime == messages[Len(messages)].time
           from == NumberOr(argFrom, 0)
           to == NumberOr(argTo, maxTime)
           dur == (to - from) + PaddingMs
       IN  /\ timeFrom' = from
           /\ timeTo' = to
           /\ currentTime' = from * frameRate
           /\ currentMessageIndex' = findMessageIndexAtTime(messages, from)
           /\ duration' = dur
           /\ IF InvalidDuration(dur)
              THEN /\ reported' = reported \cup {"Invalid video duration"}
                   /\ mainResult' = {"false"}
                   /\ pc' = "returned"
              ELSE /\ pc' = "start"
                   /\ UNCHANGED <<reported, mainResult>>
    /\ UNCHANGED <<messages, argFrom, argTo, frameRate, height, frames, i, canvas,
                   encoder, written, buffered, ended, exitCode>>
    /\ UNCHANGED parseVars
    /\ UNCHANGED wrapVars
    /\ UNCHANGED drawVars

\* lines 778-853: the canvas, the PassThrough stream and the ffmpeg command
\* reading it, frames, the background fill
MainStartEncoder ==
    /\ pc = "start"
    /\ canvas' = <<>>
    /\ encoder' = "running"
    /\ frames' = FrameCount(frameRate, duration)
    /\ i' = 0
    /\ pc' = "loop"
    /\ UNCHANGED <<messages, argFrom, argTo, frameRate, height, timeFrom, timeTo,
                   currentTime, currentMessageIndex, duration, written, buffered,
                   ended, reported, mainResult, exitCode>>
    /\ UNCHANGED parseVars
    /\ UNCHANGED wrapVars
    /\ UNCHANGED drawVars

\* How many messages, from the next unrevealed one on, are due at ct
RECURSIVE DueFrom(_, _, _, _)
DueFrom(msgs, idx, rate, ct) ==
    IF idx < Len(msgs) /\ ct >= msgs[idx + 1].time * rate
    THEN 1 + DueFrom(msgs, idx + 1, rate, ct)
    ELSE 0

\* lines 855-864: one iteration of the frame loop.  The write is not awaited
\* and its result is not read: the frame joins the stream's buffer.
FrameStep ==
    /\ pc = "loop"
    /\ i < frames
    /\ LET reveal == RevealCond(messages, currentMessageIndex, frameRate, currentTime)
           shown == IF reveal THEN drawChat(messages, currentMessageIndex, height)
                    ELSE canvas
           index == IF reveal THEN currentMessageIndex + 1 ELSE currentMessageIndex
       IN  /\ canvas' = shown
           /\ currentMessageIndex' = index
           /\ written' = Append(written,
                [idx |-> i, time |-> currentTime, canvas |-> shown,
                 due |-> DueFrom(messages, currentMessageIndex, frameRate, currentTime),
                 revealed |-> index - currentMessageIndex,
                 pending |-> buffered])
    /\ buffered' = buffered + 1
    /\ currentTime' = TimeOfFrame(timeFrom, frameRate, i)
    /\ i' = i + 1
    /\ UNCHANGED <<pc, messages, argFrom, argTo, frameRate, height, timeFrom, timeTo,
                   duration, frames, encoder, ended, reported, mainResult, exitCode>>
    /\ UNCHANGED parseVars
    /\ UNCHANGED wrapVars
    /\ UNCHANGED drawVars

\* lines 866-868: the loop is over, passThroughStream.end(), main returns
MainEnd ==
    /\ pc = "loop"
    /\ i >= frames
    /\ ended' = ended + 1
    /\ mainResult' = {"undefined"}
    /\ pc' = "done"
    /\ UNCHANGED <<messages, argFrom, argTo, frameRate, height, timeFrom, timeTo,
                   currentTime, currentMessageIndex, duration, frames, i, canvas,
                   encoder, written, buffered, reported, exitCode>>
    /\ UNCHANGED parseVars
    /\ UNCHANGED wrapVars
    /\ UNCHANGED drawVars

(* The event loop.  From line 748 to its return main runs without an await, *)
(* so the callbacks of the stream and of the encoder run after main is done. *)

\* the encoder takes one frame from the stream
EncoderDrain ==
    /\ pc = "done"
    /\ encoder = "running"
    /\ buffered > 0
    /\ buffered' = buffered - 1
    /\ UNCHANGED <<pc, messages, argFrom, argTo, frameRate, height, timeFrom, timeTo,
                   currentTime, currentMessageIndex, duration, frames, i, canvas,
                   encoder, written, ended, reported, mainResult, exitCode>>
    /\ UNCHANGED parseVars
    /\ UNCHANGED wrapVars
    /\ UNCHANGED drawVars

\* lines 796-798: the command's 'error' event
EncoderError ==
    /\ pc = "done"
    /\ encoder = "running"
    /\ encoder' = "error"
    /\ reported' = reported \cup {"Error creating video"}
    /\ UNCHANGED <<pc, messages, argFrom, argTo, frameRate, height, timeFrom, timeTo,
                   currentTime, currentMessageIndex, duration, frames, i, canvas,
                   written, buffered, ended, mainResult, exitCode>>
    /\ UNCHANGED parseVars
    /\ UNCHANGED wrapVars
    /\ UNCHANGED drawVars

\* lines 793-795: the command's 'end' event
EncoderEnd ==
    /\ pc = "done"
    /\ encoder = "running"
    /\ ended > 0
    /\ buffered = 0
    /\ encoder' = "ended"
    /\ UNCHANGED <<pc, messages, argFrom, argTo, frameRate, height, timeFrom, timeTo,
                   currentTime, currentMessageIndex, duration, frames, i, canvas,
                   written, buffered, ended, reported, mainResult, exitCode>>
    /\ UNCHANGED parseVars
    /\ UNCHANGED wrapVars
    /\ UNCHANGED drawVars

\* line 869: main() is called and its promise dropped; no process.exit and no
\* process.exitCode anywhere: the process ends with status 0 once nothing is left
ProcessExit ==
    /\ pc \in {"returned", "done"}
    /\ encoder # "running"
    /\ exitCode = {}
    /\ exitCode' = {0}
    /\ UNCHANGED <<pc, messages, argFrom, argTo, frameRate, height, timeFrom, timeTo,
                   currentTime, currentMessageIndex, duration, frames, i, canvas,
                   encoder, written, buffered, ended, reported, mainResult>>
    /\ UNCHANGED parseVars
    /\ UNCHANGED wrapVars
    /\ UNCHANGED drawVars

NextMain ==
    \/ MainCheckMessages
    \/ MainSetup
    \/ MainStartEncoder
    \/ FrameStep
    \/ MainEnd
    \/ EncoderDrain
    \/ EncoderError
    \/ EncoderEnd
    \/ ProcessExit

Spec == InitMain /\ [][NextMain]_vars

----------------------------------------------------------------------------
(* The claims about main and the frame loop, checked under Spec *)

\* The run of the scenario: one message at 0.5 s, from 0, to 2, 8 frames a second
SingleMessageRun ==
    /\ messages = <<Message(500)>>
    /\ argFrom \in {{}, {0}}
    /\ argTo = {2}
    /\ frameRate = 8

\* C1: the frame written for index i reflects the reveal decision made against
\* currentTime = fromTime + i / frameRate; in the run with a single message at
\* 0.5 s (from 0, to 2, 8 frames a second) frames 0..3 show no message and every
\* frame from index 4 on shows exactly one.
C1_FrameShowsDecisionAtItsTime ==
    SingleMessageRun =>
        \A k \in 1..Len(written) :
            Len(written[k].canvas) = IF written[k].idx >= 4 THEN 1 ELSE 0

\* C2: when k >= 2 unrevealed messages are due at the currentTime of a frame
\* tick, all k are revealed in the frame written for that tick.
C2_AllDueRevealedInOneTick ==
    \A k \in 1..Len(written) :
        written[k].due >= 2 => written[k].revealed = written[k].due

\* C3: with the sink a buffer of SinkBound frames drained by the encoder, no
\* write is issued while the buffer is full: the frames written and not yet
\* accepted never exceed the bound.
C3_WritesWaitForTheSink ==
    /\ buffered <= SinkBound
    /\ \A k \in 1..Len(written) : written[k].pending < SinkBound

\* C4: for a window with to - from + 2.0 > 0 the pump writes exactly
\* floor(frameRate * (to - from + 2.0)) frames (496 for 8 frames a second, from 0,
\* to 60), in increasing frame-index order, then closes the sink once, and
\* writes nothing after the close.
C4_FrameCountOrderAndSingleClose ==
    /\ ended <= 1
    /\ \A k \in 1..Len(written) : written[k].idx = k - 1
    /\ (pc = "done") => (ended = 1)
    /\ (ended = 1) =>
          LET n == Len(written)
              window == frameRate * (timeTo - timeFrom + 2000)
          IN  /\ timeTo - timeFrom + 2000 > 0
              /\ n * 1000 <= window
              /\ window < (n + 1) * 1000
              /\ (frameRate = 8 /\ timeFrom = 0 /\ timeTo = 60000) => n = 496

C4_Witness == pc = "done" /\ ended = 1 /\ Len(written) = 496 /\ buffered = 0

\* C7: currentMessageIndex never decreases from one step to the next and never
\* exceeds the number of messages.
C7_MonotonicReveal ==
    /\ [][currentMessageIndex' >= currentMessageIndex]_vars
    /\ [](currentMessageIndex >= 0 /\ currentMessageIndex <= Len(messages))

C7_Witness ==
    /\ pc = "done"
    /\ Len(messages) = 2
    /\ currentMessageIndex = 2
    /\ \E k \in 1..Len(written) : written[k].revealed = 1 /\ written[k].idx > 1

\* C10: every fatal failure (empty timeline, window of non-positive duration,
\* encoder error) that was reported ends the process with a non-zero status.
C10_FailureExitsNonZero ==
    (exitCode # {} /\ reported # {}) => exitCode # {0}

\* C11: when the timeline is empty, or (to - from) + 2.0 <= 0, the run aborts
\* before the canvas is created and before the encoder is started: the sink is
\* never opened, no frame is written and nothing is closed.
C11_AbortBeforeCanvasAndEncoder ==
    (\/ pc # "check" /\ Len(messages) = 0
     \/ pc \notin {"check", "setup"} /\ (timeTo - timeFrom) + PaddingMs <= 0)
    => /\ pc = "returned"
       /\ mainResult = {"false"}
       /\ reported # {}
       /\ encoder = "off"
       /\ canvas = <<>>
       /\ written = <<>>
       /\ buffered = 0
       /\ ended = 0

C11_Witness ==
    /\ exitCode # {}
    /\ Len(messages) > 0
    /\ (timeTo - timeFrom) + PaddingMs = 0
    /\ reported = {"Invalid video duration"}

\* the timeline is in the order of its timestamps
IsSortedTimeline == \A a, b \in 1..Len(messages) : a <= b => messages[a].time <= messages[b].time

\* the 0-based indices of the messages whose timestamp is <= t (t times frameRate)
DueAt(t) == {m \in 0..(Len(messages) - 1) : messages[m + 1].time * frameRate <= t}

\* the 0-based indices a written frame shows
ShownIn(frame) == {frame.canvas[n] : n \in 1..Len(frame.canvas)}

\* C14: in each frame written, every message whose timestamp is <= the
\* currentTime the frame was made at is visible, up to the canvas capacity (the
\* latest maxMessagesShown of them), also for the messages at or before fromTime
\* that the cursor seeded by findMessageIndexAtTime stands behind.
C14_EveryFrameShowsEveryRevealed ==
    IsSortedTimeline =>
        \A k \in 1..Len(written) :
            LET due == DueAt(written[k].time) IN
            \A m \in due :
                Cardinality({n \in due : n > m}) < maxMessagesShown(height)
                    => m \in ShownIn(written[k])

\* C16: for a sorted timeline, when the sink is closed every message whose
\* timestamp lies in [from, to] has been rendered in some frame written.
C16_PaddingShowsTheFinalMessages ==
    (IsSortedTimeline /\ ended = 1) =>
        \A m \in 0..(Len(messages) - 1) :
            (timeFrom <= messages[m + 1].time /\ messages[m + 1].time <= timeTo)
                => \E k \in 1..Len(written) : m \in ShownIn(written[k])

----------------------------------------------------------------------------
(* parseMessages, fetchUserAvatar, preloadEmoji *)

(* A raw record, one parsed line of the .live_chat.json file:               *)
(*   replay      message.replayChatItemAction is present                    *)
(*   actions     .actions: "none", "empty" ([]), "null" ([null]) or "ok"    *)
(*   add         actions[0].addChatItemAction is present                    *)
(*   item        .item is present                                           *)
(*   renderer    .item.liveChatTextMessageRenderer is present               *)
(*   authorName  optional object, its simpleText optional                   *)
(*   message     optional object, its runs optional (a sequence of spans)   *)
(*   liveOff     message.videoOffsetTimeMsec, optional string of digits     *)
(*   replayOff   message.replayChatItemAction.videoOffsetTimeMsec, the same *)
(*   channelId   authorExternalChannelId, optional                          *)
(*   photo       authorPhoto.thumbnails is a non-empty array                *)
(* A string of digits is the sequence of its digits: <<>> is "".            *)

TextSpan == [kind |-> "text", id |-> "", thumb |-> FALSE]
EmojiSpan(id, thumb) == [kind |-> "emoji", id |-> id, thumb |-> thumb]

BaseRecord ==
    [replay |-> TRUE, actions |-> "ok", add |-> TRUE, item |-> TRUE, renderer |-> TRUE,
     authorName |-> {[simpleText |-> {"Ann"}]},
     message |-> {[runs |-> {<<TextSpan>>}]},
     liveOff |-> {}, replayOff |-> {<<5, 0, 0>>},
     channelId |-> {"UC1"}, photo |-> TRUE]

RawRecords ==
    { BaseRecord,
      [BaseRecord EXCEPT !.replay = FALSE, !.replayOff = {}],
      [BaseRecord EXCEPT !.actions = "none"],
      [BaseRecord EXCEPT !.actions = "empty"],
      [BaseRecord EXCEPT !.actions = "null"],
      [BaseRecord EXCEPT !.add = FALSE],
      [BaseRecord EXCEPT !.item = FALSE],
      [BaseRecord EXCEPT !.renderer = FALSE],
      [BaseRecord EXCEPT !.authorName = {}],
      [BaseRecord EXCEPT !.authorName = {[simpleText |-> {}]}],
      [BaseRecord EXCEPT !.message = {}],
      [BaseRecord EXCEPT !.message = {[runs |-> {}]}],
      [BaseRecord EXCEPT !.liveOff = {<<7, 0, 0>>}],
      [BaseRecord EXCEPT !.liveOff = {<<7, 0, 0>>}, !.replayOff = {}],
      [BaseRecord EXCEPT !.replayOff = {}],
      [BaseRecord EXCEPT !.replayOff = {<<>>}],
      [BaseRecord EXCEPT !.replayOff = {<<0>>}],
      [BaseRecord EXCEPT !.message = {}, !.replayOff = {}],
      [BaseRecord EXCEPT !.channelId = {}],
      [BaseRecord EXCEPT !.photo = FALSE],
      [BaseRecord EXCEPT !.message = {[runs |-> {<<EmojiSpan("e1", TRUE), EmojiSpan("e1", TRUE)>>}]}],
      [BaseRecord EXCEPT !.message = {[runs |-> {<<TextSpan, EmojiSpan("e1", TRUE)>>}]},
                         !.channelId = {"UC2"}],
      [BaseRecord EXCEPT !.message = {[runs |-> {<<EmojiSpan("e2", FALSE)>>}]}] }

The(opt) == CHOOSE x \in opt : TRUE

\* the truthiness of an optional string
Truthy(opt) == opt # {} /\ opt # {<<>>}

RECURSIVE DigitsValue(_, _)
DigitsValue(digits, acc) ==
    IF digits = <<>> THEN acc
    ELSE DigitsValue(Tail(digits), acc * 10 + Head(digits))

\* Number(str): the decimal value of the string ("" gives 0).  The model's
\* time is Number(messageTime) / 1000.0 seconds counted in milliseconds.
Number(str) == DigitsValue(str, 0)

\* lines 446-467: the safety checks
SafetyChecks(rec) ==
    /\ rec.replay
    /\ rec.actions \notin {"none", "empty"}
    /\ rec.actions # "null"
    /\ rec.add
    /\ rec.item
    /\ rec.renderer

\* the two offsets taken in the other order
messageTimeReplayFirst(rec) == IF Truthy(rec.replayOff) THEN rec.replayOff ELSE rec.liveOff

\* lines 481-484: live chat first, replay chat when that is falsy
messageTime(rec) == IF Truthy(rec.liveOff) THEN rec.liveOff ELSE rec.replayOff

\* fetchUserAvatar with the channel lookup not looking at the image it has
fetchUserAvatarAlwaysLookup(rec, cache, key, photoOk, apiOk) ==
    IF rec.channelId = {} THEN [image |-> {}, cache |-> cache, calls |-> <<>>]
    ELSE LET id == The(rec.channelId) IN
    IF id \in cache THEN [image |-> {id}, cache |-> cache, calls |-> <<>>]
    ELSE LET tryPhoto == rec.photo
             gotPhoto == tryPhoto /\ photoOk
             tryApi == key
             gotApi == tryApi /\ apiOk
             calls == (IF tryPhoto THEN <<[kind |-> "avatar", key |-> id, ok |-> photoOk]>>
                       ELSE <<>>)
                      \o (IF tryApi THEN <<[kind |-> "api", key |-> id, ok |-> apiOk]>>
                          ELSE <<>>)
         IN  IF gotPhoto \/ gotApi
             THEN [image |-> {id}, cache |-> cache \cup {id}, calls |-> calls]
             ELSE [image |-> {}, cache |-> cache, calls |-> calls]

\* fetchUserAvatar (lines 376-418).  photoOk: loadImage of the record's
\* thumbnail resolves; apiOk: the channel lookup and its loadImage resolve.
\* Gives the image (optional), the cache after it and the calls it made.
fetchUserAvatar(rec, cache, key, photoOk, apiOk) ==
    IF rec.channelId = {} THEN [image |-> {}, cache |-> cache, calls |-> <<>>]
    ELSE LET id == The(rec.channelId) IN
    IF id \in cache THEN [image |-> {id}, cache |-> cache, calls |-> <<>>]
    ELSE LET tryPhoto == rec.photo
             gotPhoto == tryPhoto /\ photoOk
             tryApi == ~gotPhoto /\ key
             gotApi == tryApi /\ apiOk
             calls == (IF tryPhoto THEN <<[kind |-> "avatar", key |-> id, ok |-> photoOk]>>
                       ELSE <<>>)
                      \o (IF tryApi THEN <<[kind |-> "api", key |-> id, ok |-> apiOk]>>
                          ELSE <<>>)
         IN  IF gotPhoto \/ gotApi
             THEN [image |-> {id}, cache |-> cache \cup {id}, calls |-> calls]
             ELSE [image |-> {}, cache |-> cache, calls |-> calls]

\* preloadEmoji without its look at the cache
preloadEmojiUncached(span, cache, ok) ==
    IF span.thumb
    THEN [cache |-> IF ok THEN cache \cup {span.id} ELSE cache,
          calls |-> <<[kind |-> "emoji", key |-> span.id, ok |-> ok]>>]
    ELSE [cache |-> cache, calls |-> <<>>]

\* preloadEmoji (lines 420-436).  ok: loadImage resolves.
preloadEmoji(span, cache, ok) ==
    IF span.id \in cache THEN [cache |-> cache, calls |-> <<>>]
    ELSE IF span.thumb
         THEN [cache |-> IF ok THEN cache \cup {span.id} ELSE cache,
               calls |-> <<[kind |-> "emoji", key |-> span.id, ok |-> ok]>>]
         ELSE [cache |-> cache, calls |-> <<>>]

InitParse ==
    /\ pc = "parse"
    /\ messages = <<>>
    /\ argFrom = {}
    /\ argTo = {}
    /\ frameRate = DefaultFrameRate
    /\ height = DefaultHeight
    /\ timeFrom = 0
    /\ timeTo = 0
    /\ currentTime = 0
    /\ currentMessageIndex = 0
    /\ duration = 0
    /\ frames = 0
    /\ i = 0
    /\ canvas = <<>>
    /\ encoder = "off"
    /\ written = <<>>
    /\ buffered = 0
    /\ ended = 0
    /\ reported = {}
    /\ mainResult = {}
    /\ exitCode = {}
    /\ raw \in SeqsUpTo(RawRecords, MaxRecords)
    /\ skipAvatars \in BOOLEAN
    /\ apiKey \in BOOLEAN
    /\ ri = 0
    /\ result = <<>>
    /\ imageCache = {}
    /\ loadLog = <<>>
    /\ outcomes = <<>>
    /\ pstate = "records"
    /\ ei = 0
    /\ ej = 0
    /\ wMessage = <<>>
    /\ wAuthorWidth = 0
    /\ wWidth = 0
    /\ messageLines = {}
    /\ cMessages = <<>>
    /\ cWidth = 0
    /\ cHeight = DefaultHeight
    /\ chatBackground = "opaque"
    /\ pixels = <<>>
    /\ ctx = [ty |-> 0, fillStyle |-> "black", font |-> "default", saved |-> <<>>]
    /\ renders = <<>>

Outcome(rec, emitted, threw, calls, before, after) ==
    [rec |-> rec, emitted |-> emitted, threw |-> threw, calls |-> calls,
     cacheBefore |-> before, cacheAfter |-> after]

\* lines 441-498: one iteration of the first loop, the awaited fetchUserAvatar
\* included.  Reading .runs of a missing message (line 495) throws a TypeError,
\* which rejects parseMessages and, through line 748, main.
ParseRecord ==
    /\ pstate = "records"
    /\ ri < Len(raw)
    /\ ri' = ri + 1
    /\ LET rec == raw[ri + 1] IN
       IF ~SafetyChecks(rec) \/ rec.authorName = {}
       THEN /\ outcomes' = Append(outcomes,
                             Outcome(rec, <<>>, FALSE, <<>>, imageCache, imageCache))
            /\ UNCHANGED <<result, imageCache, loadLog, pstate, pc>>
       ELSE \E photoOk \in BOOLEAN, apiOk \in BOOLEAN :
            LET av == IF skipAvatars
                      THEN [image |-> {}, cache |-> imageCache, calls |-> <<>>]
                      ELSE fetchUserAvatar(rec, imageCache, apiKey, photoOk, apiOk)
                time == messageTime(rec)
            IN  /\ imageCache' = av.cache
                /\ loadLog' = loadLog \o av.calls
                /\ IF ~Truthy(time)
                   THEN /\ outcomes' = Append(outcomes,
                                Outcome(rec, <<>>, FALSE, av.calls, imageCache, av.cache))
                        /\ UNCHANGED <<result, pstate, pc>>
                   ELSE IF rec.message = {}
                   THEN /\ outcomes' = Append(outcomes,
                                Outcome(rec, <<>>, TRUE, av.calls, imageCache, av.cache))
                        /\ pstate' = "threw"
                        /\ pc' = "rejected"
                        /\ UNCHANGED result
                   ELSE LET m == MakeMessage(The(rec.authorName).simpleText, av.image,
                                             The(rec.message).runs, Number(The(time)))
                        IN  /\ result' = Append(result, m)
                            /\ outcomes' = Append(outcomes,
                                 Outcome(rec, <<m>>, FALSE, av.calls, imageCache, av.cache))
                            /\ UNCHANGED <<pstate, pc>>
    /\ UNCHANGED <<raw, skipAvatars, apiKey, ei, ej>>
    /\ UNCHANGED <<messages, argFrom, argTo, frameRate, height, timeFrom, timeTo,
                   currentTime, currentMessageIndex, duration, frames, i, canvas,
                   encoder, written, buffered, ended, reported, mainResult, exitCode>>
    /\ UNCHANGED wrapVars
    /\ UNCHANGED drawVars

\* line 441 to line 501: the records are exhausted, the preload loop starts
ParseRecordsDone ==
    /\ pstate = "records"
    /\ ri >= Len(raw)
    /\ pstate' = "preload"
    /\ ei' = 0
    /\ ej' = 0
    /\ UNCHANGED <<raw, skipAvatars, apiKey, ri, result, imageCache, loadLog, outcomes>>
    /\ UNCHANGED mainVars
    /\ UNCHANGED wrapVars
    /\ UNCHANGED drawVars

\* lines 501-506: one span of one message.  Iterating message.text when the
\* record had no runs (text is undefined) throws a TypeError.
PreloadSpan ==
    /\ pstate = "preload"
    /\ ei < Len(result)
    /\ LET text == result[ei + 1].text IN
       IF text = {}
       THEN /\ pstate' = "threw"
            /\ pc' = "rejected"
            /\ UNCHANGED <<imageCache, loadLog, ei, ej>>
       ELSE IF ej >= Len(The(text))
       THEN /\ ei' = ei + 1
            /\ ej' = 0
            /\ UNCHANGED <<imageCache, loadLog, pstate, pc>>
       ELSE LET span == The(text)[ej + 1] IN
            /\ ej' = ej + 1
            /\ IF span.kind = "emoji"
               THEN \E ok \in BOOLEAN :
                    LET r == preloadEmoji(span, imageCache, ok)
                    IN  /\ imageCache' = r.cache
                        /\ loadLog' = loadLog \o r.calls
               ELSE UNCHANGED <<imageCache, loadLog>>
            /\ UNCHANGED <<ei, pstate, pc>>
    /\ UNCHANGED <<raw, skipAvatars, apiKey, ri, result, outcomes>>
    /\ UNCHANGED <<messages, argFrom, argTo, frameRate, height, timeFrom, timeTo,
                   currentTime, currentMessageIndex, duration, frames, i, canvas,
                   encoder, written, buffered, ended, reported, mainResult, exitCode>>
    /\ UNCHANGED wrapVars
    /\ UNCHANGED drawVars

\* line 509, and line 748 taking the result
ParseReturn ==
    /\ pstate = "preload"
    /\ ei >= Len(result)
    /\ pstate' = "returned"
    /\ messages' = result
    /\ pc' = "check"
    /\ UNCHANGED <<raw, skipAvatars, apiKey, ri, result, imageCache, loadLog, outcomes,
                   ei, ej>>
    /\ UNCHANGED <<argFrom, argTo, frameRate, height, timeFrom, timeTo,
                   currentTime, currentMessageIndex, duration, frames, i, canvas,
                   encoder, written, buffered, ended, reported, mainResult, exitCode>>
    /\ UNCHANGED wrapVars
    /\ UNCHANGED drawVars

NextParse ==
    \/ ParseRecord
    \/ ParseRecordsDone
    \/ PreloadSpan
    \/ ParseReturn

SpecParse == InitParse /\ [][NextParse]_vars

----------------------------------------------------------------------------
(* The claims about parseMessages, checked under SpecParse *)

\* the record is an add-chat-item action carrying a text-message renderer
IsTextMessageAction(rec) ==
    rec.replay /\ rec.actions = "ok" /\ rec.add /\ rec.item /\ rec.renderer

HasUsableOffset(rec) == Truthy(rec.liveOff) \/ Truthy(rec.replayOff)

Pow10(n) == IF n = 0 THEN 1 ELSE IF n = 1 THEN 10 ELSE IF n = 2 THEN 100 ELSE 1000

SumOver(f, S) ==
    LET RECURSIVE Sum(_)
        Sum(T) == IF T = {} THEN 0
                  ELSE LET x == CHOOSE y \in T : TRUE IN f[x] + Sum(T \ {x})
    IN  Sum(S)

\* the milliseconds a string of digits names
Milliseconds(str) ==
    SumOver([k \in 1..Len(str) |-> str[k] * Pow10(Len(str) - k)], 1..Len(str))

\* the offset of the record: the live one when there is one, else the replay one
OffsetMs(rec) ==
    IF Truthy(rec.liveOff) THEN Milliseconds(The(rec.liveOff))
    ELSE Milliseconds(The(rec.replayOff))

IsExcludedRecord(rec) ==
    \/ rec.authorName = {}
    \/ ~HasUsableOffset(rec)
    \/ ~IsTextMessageAction(rec)

IsWellFormedRecord(rec) ==
    /\ IsTextMessageAction(rec)
    /\ rec.authorName # {}
    /\ The(rec.authorName).simpleText # {}
    /\ rec.message # {}
    /\ The(rec.message).runs # {}
    /\ HasUsableOffset(rec)

RECURSIVE Emitted(_)
Emitted(outs) ==
    IF outs = <<>> THEN <<>> ELSE Head(outs).emitted \o Emitted(Tail(outs))

\* C5: a record missing the author, missing a usable time offset or not an
\* add-chat-item text message is excluded; a well-formed record gives exactly
\* one message whose time is its offset in ms / 1000, the live offset before the
\* replay one; what parseMessages returns is what the records gave, in order.
C5_NormalizationFiltering ==
    /\ \A k \in 1..Len(outcomes) :
          LET o == outcomes[k] IN
          /\ o.rec = raw[k]
          /\ IsExcludedRecord(o.rec) => o.emitted = <<>>
          /\ IsWellFormedRecord(o.rec) =>
                /\ Len(o.emitted) = 1
                /\ o.emitted[1].time = OffsetMs(o.rec)
    /\ result = Emitted(outcomes)
    /\ (pstate = "returned") => (messages = Emitted(outcomes))

C5_Witness ==
    /\ pstate = "returned"
    /\ Len(outcomes) = 2
    /\ IsWellFormedRecord(raw[1]) /\ Truthy(raw[1].liveOff) /\ Truthy(raw[1].replayOff)
    /\ outcomes[1].emitted # <<>> /\ outcomes[1].emitted[1].time = 700
    /\ IsExcludedRecord(raw[2]) /\ raw[2].authorName # {} /\ IsTextMessageAction(raw[2])
    /\ Len(messages) = 1

\* C6: normalization returns a sequence no longer than the input with the
\* accepted records in order, and a bad record (a nested optional field absent,
\* the author display text and the run list included) is skipped silently: no
\* error is raised and every other record is still processed.
C6_BadRecordSkippedSilently ==
    /\ pstate # "threw"
    /\ Len(result) <= Len(raw)
    /\ \A k \in 1..Len(outcomes) :
          ~IsWellFormedRecord(outcomes[k].rec) => outcomes[k].emitted = <<>>
    /\ (pstate \in {"preload", "returned"}) => (Len(outcomes) = Len(raw))

EmojiLoads(id) ==
    {k \in 1..Len(loadLog) : loadLog[k].kind = "emoji" /\ loadLog[k].key = id}

EmojiIds == {"e1", "e2"}

\* C8 as stated: the loader of an emoji id is invoked at most once in the run,
\* whatever the outcome of the first load.
C8_LoaderInvokedAtMostOnce ==
    \A id \in EmojiIds : Cardinality(EmojiLoads(id)) <= 1

\* C8 as amended: once a load of an emoji id has succeeded the loader is not
\* invoked for that id again (so at most one load of an id succeeds, and the
\* loader is invoked at most once when the first load succeeds).
C8_NoLoadAfterSuccess ==
    /\ \A id \in EmojiIds :
          \A a, b \in EmojiLoads(id) : a < b => ~loadLog[a].ok
    /\ \A k \in 1..Len(loadLog) :
          (loadLog[k].kind = "emoji" /\ loadLog[k].ok) => loadLog[k].key \in imageCache

C8_Witness ==
    /\ pstate = "returned"
    /\ Len(messages) = 2
    /\ \A k \in 1..2 : messages[k].text = {<<EmojiSpan("e1", TRUE), EmojiSpan("e1", TRUE)>>}
    /\ Cardinality(EmojiLoads("e1")) = 1
    /\ \A k \in EmojiLoads("e1") : loadLog[k].ok

\* the calls of one record that went to the channel lookup
ApiCalls(o) == {c \in 1..Len(o.calls) : o.calls[c].kind = "api"}

SomeCallFailed(o) == \E c \in 1..Len(o.calls) : ~o.calls[c].ok

EveryCallFailed(o) == o.calls # <<>> /\ \A c \in 1..Len(o.calls) : ~o.calls[c].ok

\* the record is emitted without raising, and the channel lookup is made at
\* most once, only with a credential and only with no image from the record
AvatarNeverAborts(o) ==
    /\ Len(o.emitted) = 1
    /\ ~o.threw
    /\ Cardinality(ApiCalls(o)) <= 1
    /\ \A c \in ApiCalls(o) :
          /\ apiKey
          /\ o.rec.channelId # {}
          /\ The(o.rec.channelId) \notin o.cacheBefore
          /\ \A b \in 1..(c - 1) : ~o.calls[b].ok

\* C12 as stated: for an accepted record, when decoding the record's thumbnail
\* fails and/or the channel lookup fails, the message is emitted with its avatar
\* absent and nothing is cached for the channel id; the lookup is made at most
\* once, only with a credential and only when the record gave no image.
C12_AnyFailureLeavesAvatarAbsent ==
    \A k \in 1..Len(outcomes) :
       LET o == outcomes[k] IN
       IsWellFormedRecord(o.rec) =>
          /\ AvatarNeverAborts(o)
          /\ SomeCallFailed(o) =>
                /\ o.emitted[1].avatar = {}
                /\ o.cacheAfter = o.cacheBefore

\* C12 amended: the avatar is absent and nothing is cached when every source
\* that was tried failed; a thumbnail failure followed by a lookup that succeeds
\* gives the message the looked-up avatar and caches it under the channel id.
C12_AllFailuresLeaveAvatarAbsent ==
    \A k \in 1..Len(outcomes) :
       LET o == outcomes[k] IN
       IsWellFormedRecord(o.rec) =>
          /\ AvatarNeverAborts(o)
          /\ EveryCallFailed(o) =>
                /\ o.emitted[1].avatar = {}
                /\ o.cacheAfter = o.cacheBefore
          /\ (SomeCallFailed(o) /\ ~EveryCallFailed(o)) =>
                /\ o.emitted[1].avatar = o.rec.channelId
                /\ o.cacheAfter = o.cacheBefore \cup o.rec.channelId
                /\ o.calls[Len(o.calls)].kind = "api"

C12_Witness ==
    /\ pstate = "returned"
    /\ ~skipAvatars
    /\ apiKey
    /\ \E k \in 1..Len(outcomes) :
          LET o == outcomes[k] IN
          /\ IsWellFormedRecord(o.rec)
          /\ Len(o.calls) = 2
          /\ o.calls[1].kind = "avatar" /\ ~o.calls[1].ok
          /\ o.calls[2].kind = "api" /\ ~o.calls[2].ok
          /\ o.emitted # <<>> /\ o.emitted[1].avatar = {}
          /\ o.cacheAfter = o.cacheBefore
          /\ messages # <<>>

\* C17: a record that parseMessages discards has no effect: no image loader and
\* no channel lookup is invoked for it and the image cache is left as it was
\* before the record was examined.
C17_DiscardedRecordHasNoEffect ==
    \A k \in 1..Len(outcomes) :
       LET o == outcomes[k] IN
       (o.emitted = <<>> /\ ~o.threw) =>
          /\ o.calls = <<>>
          /\ o.cacheAfter = o.cacheBefore

----------------------------------------------------------------------------
(* drawMessage: the offsets and wrapMessage *)

(* A span of the message is a text span, given by the widths                *)
(* ctx.measureText(word + ' ').width of the words of span.text.split(' ')   *)
(* (a non-empty text has at least one word), or an emoji span.  A placed    *)
(* span of a line is {x, text} with the widths of the words of its text, or *)
(* {x, emoji}.                                                              *)

WText(words) == [kind |-> "text", words |-> words]
WEmoji == [kind |-> "emoji", words |-> <<>>]

Placed(x, kind, words) == [x |-> x, kind |-> kind, words |-> words]

\* line 584
authorX == AVATAR_SIZE + 16

\* line 587
messageX(authorWidth) == authorX + authorWidth + 8

\* the test without the width of what is placed
OverflowsAtCursor(x, width, canvasWidth) == x > canvasWidth

\* lines 620 and 641: (x + width) > ctx.canvas.width starts a new line
Overflows(x, width, canvasWidth) == (x + width) > canvasWidth

PushTo(lines, placed) ==
    [lines EXCEPT ![Len(lines)] = Append(lines[Len(lines)], placed)]

\* lines 618-635: the words of one text span.  st: lines, x, textX, text
RECURSIVE WrapWords(_, _, _)
WrapWords(words, st, canvasWidth) ==
    IF words = <<>> THEN st
    ELSE LET w == Head(words)
             broken == IF Overflows(st.x, w, canvasWidth)
                       THEN [lines |-> Append(PushTo(st.lines,
                                                     Placed(st.textX, "text", st.text)),
                                              <<>>),
                             x |-> authorX, textX |-> authorX, text |-> <<>>]
                       ELSE st
         IN  WrapWords(Tail(words),
                       [broken EXCEPT !.text = Append(broken.text, w), !.x = broken.x + w],
                       canvasWidth)

\* lines 596-650: the spans.  st: lines, x
RECURSIVE WrapSpans(_, _, _)
WrapSpans(spans, st, canvasWidth) ==
    IF spans = <<>> THEN st.lines
    ELSE LET span == Head(spans) IN
         IF span.kind = "text"
         THEN LET r == WrapWords(span.words,
                                 [lines |-> st.lines, x |-> st.x, textX |-> st.x,
                                  text |-> <<>>],
                                 canvasWidth)
                  lines == IF Len(r.text) > 0
                           THEN PushTo(r.lines, Placed(r.textX, "text", r.text))
                           ELSE r.lines
              IN  WrapSpans(Tail(spans), [lines |-> lines, x |-> r.x], canvasWidth)
         ELSE LET broken == IF Overflows(st.x, EMOJI_SIZE, canvasWidth)
                            THEN [lines |-> Append(st.lines, <<>>), x |-> authorX]
                            ELSE st
              IN  WrapSpans(Tail(spans),
                            [lines |-> PushTo(broken.lines, Placed(broken.x, "emoji", <<>>)),
                             x |-> broken.x + EMOJI_SIZE],
                            canvasWidth)

\* wrapMessage (lines 592-652)
wrapMessage(message, authorWidth, canvasWidth) ==
    WrapSpans(message, [lines |-> << <<>> >>, x |-> messageX(authorWidth)], canvasWidth)

WordWidths == {30, 90, 130}
WrapSpanSet ==
    {WText(<<w>>) : w \in WordWidths}
    \cup {WText(<<30, 30>>), WText(<<30, 90>>), WText(<<90, 30>>), WEmoji}
AuthorWidths == {20, 100}
CanvasWidths == {120, 160}

InitWrap ==
    /\ pc = "draw"
    /\ messages = <<>>
    /\ argFrom = {}
    /\ argTo = {}
    /\ frameRate = DefaultFrameRate
    /\ height = DefaultHeight
    /\ timeFrom = 0
    /\ timeTo = 0
    /\ currentTime = 0
    /\ currentMessageIndex = 0
    /\ duration = 0
    /\ frames = 0
    /\ i = 0
    /\ canvas = <<>>
    /\ encoder = "off"
    /\ written = <<>>
    /\ buffered = 0
    /\ ended = 0
    /\ reported = {}
    /\ mainResult = {}
    /\ exitCode = {}
    /\ raw = <<>>
    /\ skipAvatars = TRUE
    /\ apiKey = FALSE
    /\ ri = 0
    /\ result = <<>>
    /\ imageCache = {}
    /\ loadLog = <<>>
    /\ outcomes = <<>>
    /\ pstate = "returned"
    /\ ei = 0
    /\ ej = 0
    /\ wMessage \in SeqsUpTo(WrapSpanSet, MaxSpans)
    /\ wAuthorWidth \in AuthorWidths
    /\ wWidth \in CanvasWidths
    /\ messageLines = {}
    /\ cMessages = <<>>
    /\ cWidth = 0
    /\ cHeight = DefaultHeight
    /\ chatBackground = "opaque"
    /\ pixels = <<>>
    /\ ctx = [ty |-> 0, fillStyle |-> "black", font |-> "default", saved |-> <<>>]
    /\ renders = <<>>

\* line 653: const messageLines = wrapMessage(message)
DrawMessageWrap ==
    /\ pc = "draw"
    /\ messageLines = {}
    /\ messageLines' = {wrapMessage(wMessage, wAuthorWidth, wWidth)}
    /\ UNCHANGED <<wMessage, wAuthorWidth, wWidth>>
    /\ UNCHANGED mainVars
    /\ UNCHANGED parseVars
    /\ UNCHANGED drawVars

NextWrap == DrawMessageWrap

SpecWrap == InitWrap /\ [][NextWrap]_vars

----------------------------------------------------------------------------
(* The claims about wrapMessage, checked under SpecWrap *)

RECURSIVE SumSeq(_)
SumSeq(ws) == IF ws = <<>> THEN 0 ELSE Head(ws) + SumSeq(Tail(ws))

\* a placed span that draws something: an emoji, or a text run with a word
\* (drawMessage, line 682, draws no empty text)
Draws(p) == p.kind = "emoji" \/ p.words # <<>>

PlacedWidth(p) == IF p.kind = "emoji" THEN EMOJI_SIZE ELSE SumSeq(p.words)

RightEdge(p) == p.x + PlacedWidth(p)

\* a single unsplit word or emoji
IsSingleToken(p) == p.kind = "emoji" \/ Len(p.words) = 1

TheLines == The(messageLines)

\* C9 as stated: no placed span of a line has its right edge beyond the canvas
\* width, except a single unsplit word or emoji that is itself wider than the
\* canvas width.
C9_OverflowOnlyByTokenWiderThanCanvas ==
    messageLines # {} =>
        \A l \in 1..Len(TheLines) : \A k \in 1..Len(TheLines[l]) :
            LET p == TheLines[l][k] IN
            (Draws(p) /\ RightEdge(p) > wWidth) =>
                (IsSingleToken(p) /\ PlacedWidth(p) > wWidth)

\* C9 as amended: no placed span of a line has its right edge beyond the canvas
\* width, except a single unsplit word or emoji that opens a continuation line
\* at the left margin (authorX) and is wider than what is left of the canvas
\* there, canvas width - authorX; it is then the only span the line draws.
C9_OverflowOnlyByTokenWiderThanLine ==
    messageLines # {} =>
        \A l \in 1..Len(TheLines) : \A k \in 1..Len(TheLines[l]) :
            LET p == TheLines[l][k] IN
            (Draws(p) /\ RightEdge(p) > wWidth) =>
                /\ IsSingleToken(p)
                /\ PlacedWidth(p) > wWidth - authorX
                /\ l > 1
                /\ p.x = authorX
                /\ \A j \in 1..Len(TheLines[l]) : (j # k) => ~Draws(TheLines[l][j])

C9_Witness ==
    /\ messageLines # {}
    /\ wWidth = 120
    /\ Len(TheLines) >= 2
    /\ \E l \in 2..Len(TheLines) : \E k \in 1..Len(TheLines[l]) :
          /\ TheLines[l][k].words = <<90>>
          /\ RightEdge(TheLines[l][k]) > wWidth
    /\ \E k \in 1..Len(TheLines[1]) :
          Draws(TheLines[1][k]) /\ RightEdge(TheLines[1][k]) <= wWidth

----------------------------------------------------------------------------
(* drawChat and drawMessage on the canvas *)

(* The canvas is the sequence of what was painted on it, in order, since it *)
(* was last covered: a fill with the background colour or the block of a    *)
(* message, each with the rows it takes (top, height).  An opaque fill of   *)
(* the whole canvas covers what was there; a fill with a translucent colour *)
(* is composited over it (fillRect draws source-over).  The context is the  *)
(* vertical translation ty, fillStyle, font and the stack of ctx.save().    *)

Layer(kind, index, top, h, lines) ==
    [kind |-> kind, index |-> index, top |-> top, height |-> h, lines |-> lines]

Max(a, b) == IF a >= b THEN a ELSE b

\* lines 665 and 699: Math.max(AVATAR_SIZE, 16 * messageLines.length) + 8
messageHeight(lines) == Max(AVATAR_SIZE, 16 * Len(lines)) + 8

\* lines 705-706 and 852-853: ctx.fillRect(0, 0, width, height) with the
\* background colour, under the translation of the context
fillBackground(pix, c, background, h) ==
    IF c.ty = 0 /\ background = "opaque"
    THEN <<Layer("fill", -1, 0, h, 0)>>
    ELSE Append(pix, Layer("fill", -1, c.ty, h, 0))

\* drawMessage (lines 580-700) of the message with 0-based index k.
\* st: pixels, ctx, blocks (every block drawn, on the canvas or off it)
drawMessage(st, k, message, w, h) ==
    LET lines == wrapMessage(message.text, message.authorWidth, w)
        mh == messageHeight(lines)
        top == st.ctx.ty - mh
        onCanvas == top + mh > 0 /\ top < h
    IN  [pixels |-> IF onCanvas
                    THEN Append(st.pixels, Layer("message", k, top, mh, Len(lines)))
                    ELSE st.pixels,
         ctx |-> [st.ctx EXCEPT !.ty = top, !.fillStyle = "message", !.font = "message"],
         blocks |-> Append(st.blocks, [index |-> k, top |-> top, height |-> mh])]

\* lines 712-719: the loop of drawChat
RECURSIVE DrawMessages(_, _, _, _, _, _, _)
DrawMessages(st, msgs, idx, j, m, w, h) ==
    IF j >= m THEN st
    ELSE IF idx - j >= 0 /\ idx - j < Len(msgs)
         THEN DrawMessages(drawMessage(st, idx - j, msgs[idx - j + 1], w, h),
                           msgs, idx, j + 1, m, w, h)
         ELSE DrawMessages(st, msgs, idx, j + 1, m, w, h)

\* ctx.save()
Save(c) ==
    [c EXCEPT !.saved = Append(@, [ty |-> c.ty, fillStyle |-> c.fillStyle, font |-> c.font])]

\* ctx.restore()
Restore(c) ==
    IF c.saved = <<>> THEN c
    ELSE LET s == c.saved[Len(c.saved)]
         IN  [ty |-> s.ty, fillStyle |-> s.fillStyle, font |-> s.font,
              saved |-> SubSeq(c.saved, 1, Len(c.saved) - 1)]

\* drawChat (lines 702-721) on the canvas pix with the context c
drawChatCanvas(pix, c, msgs, idx, w, h, background) ==
    LET c1 == [c EXCEPT !.fillStyle = background]
        p1 == fillBackground(pix, c1, background, h)
        c2 == Save(c1)
        c3 == [c2 EXCEPT !.ty = @ + h]
        st == DrawMessages([pixels |-> p1, ctx |-> c3, blocks |-> <<>>],
                           msgs, idx, 0, maxMessagesShown(h), w, h)
    IN  [pixels |-> st.pixels, ctx |-> Restore(st.ctx), blocks |-> st.blocks]

ChatTexts == {<<WText(<<30>>)>>, <<WText(<<90, 90>>)>>}
ChatMessages == [authorWidth : AuthorWidths, text : ChatTexts]
ChatHeights == {LINE_HEIGHT, 2 * LINE_HEIGHT, 3 * LINE_HEIGHT}
ChatBackgrounds == {"opaque", "translucent"}

\* main at line 855: the canvas created (lines 778-779) and filled with the
\* background (lines 852-853)
InitDraw ==
    /\ pc = "render"
    /\ messages = <<>>
    /\ argFrom = {}
    /\ argTo = {}
    /\ frameRate = DefaultFrameRate
    /\ height = DefaultHeight
    /\ timeFrom = 0
    /\ timeTo = 0
    /\ currentTime = 0
    /\ currentMessageIndex = 0
    /\ duration = 0
    /\ frames = 0
    /\ i = 0
    /\ canvas = <<>>
    /\ encoder = "off"
    /\ written = <<>>
    /\ buffered = 0
    /\ ended = 0
    /\ reported = {}
    /\ mainResult = {}
    /\ exitCode = {}
    /\ raw = <<>>
    /\ skipAvatars = TRUE
    /\ apiKey = FALSE
    /\ ri = 0
    /\ result = <<>>
    /\ imageCache = {}
    /\ loadLog = <<>>
    /\ outcomes = <<>>
    /\ pstate = "returned"
    /\ ei = 0
    /\ ej = 0
    /\ wMessage = <<>>
    /\ wAuthorWidth = 0
    /\ wWidth = 0
    /\ messageLines = {}
    /\ cMessages \in SeqsUpTo(ChatMessages, MaxChat) \ {<<>>}
    /\ cWidth \in CanvasWidths
    /\ cHeight \in ChatHeights
    /\ chatBackground \in ChatBackgrounds
    /\ ctx = [ty |-> 0, fillStyle |-> chatBackground, font |-> "default", saved |-> <<>>]
    /\ pixels = fillBackground(<<>>, ctx, chatBackground, cHeight)
    /\ renders = <<>>

\* one call drawChat(ctx, messages, idx), as at line 859
RenderChat ==
    /\ pc = "render"
    /\ Len(renders) < MaxRenders
    /\ \E idx \in 0..(Len(cMessages) - 1) :
          LET r == drawChatCanvas(pixels, ctx, cMessages, idx, cWidth, cHeight,
                                  chatBackground)
          IN  /\ pixels' = r.pixels
              /\ ctx' = r.ctx
              /\ renders' = Append(renders, [idx |-> idx, blocks |-> r.blocks,
                                             pixels |-> r.pixels, ctx |-> r.ctx])
    /\ UNCHANGED <<cMessages, cWidth, cHeight, chatBackground>>
    /\ UNCHANGED mainVars
    /\ UNCHANGED parseVars
    /\ UNCHANGED wrapVars

NextDraw == RenderChat

SpecDraw == InitDraw /\ [][NextDraw]_vars

----------------------------------------------------------------------------
(* The claims about drawChat, checked under SpecDraw *)

\* C13: calling drawChat twice in a row with the same messages and index
\* leaves the canvas as calling it once does; drawChat restores the transform
\* it changes, and what it leaves does not depend on what an earlier render
\* left on the canvas or in the context.
C13_RenderTwiceIsRenderOnce ==
    /\ \A k \in 1..Len(renders) :
          /\ renders[k].ctx.ty = 0
          /\ renders[k].ctx.saved = <<>>
    /\ \A k, l \in 1..Len(renders) :
          renders[k].idx = renders[l].idx => renders[k].pixels = renders[l].pixels

Min(a, b) == IF a <= b THEN a ELSE b

\* the blocks of one render are the messages idx, idx-1, ... in that order,
\* the first block ending at the canvas bottom and each next block ending where
\* the one before starts
BottomUpContiguous(r) ==
    \A n \in 1..Len(r.blocks) :
        /\ r.blocks[n].index = r.idx - (n - 1)
        /\ r.blocks[n].top + r.blocks[n].height =
              IF n = 1 THEN cHeight ELSE r.blocks[n - 1].top

\* ceil(canvasHeight / LINE_HEIGHT)
CeilLines == (cHeight + LINE_HEIGHT - 1) \div LINE_HEIGHT

\* C15 as stated: drawChat draws idx, idx-1, ... from the canvas bottom upward,
\* each block directly above the previous one, stops as soon as the accumulated
\* height would exceed the canvas height or the messages are exhausted, draws at
\* most ceil(canvasHeight / minLineHeight) messages and never draws a block
\* that lies entirely above the canvas top.
C15_StopsAtTheCanvasTop ==
    \A k \in 1..Len(renders) :
        LET r == renders[k] IN
        /\ BottomUpContiguous(r)
        /\ Len(r.blocks) <= CeilLines
        /\ \A n \in 1..Len(r.blocks) : r.blocks[n].top + r.blocks[n].height > 0

\* C15 amended: drawChat draws idx, idx-1, ... from the canvas bottom upward,
\* each block directly above the previous one, for min(idx + 1,
\* floor(canvasHeight / LINE_HEIGHT)) messages whatever height has accumulated:
\* at most ceil(canvasHeight / LINE_HEIGHT) messages, and a block may lie partly
\* or entirely above the canvas top, where it leaves nothing on the canvas.
C15_StopsAtTheLoopBound ==
    \A k \in 1..Len(renders) :
        LET r == renders[k] IN
        /\ BottomUpContiguous(r)
        /\ Len(r.blocks) = Min(r.idx + 1, cHeight \div LINE_HEIGHT)
        /\ Len(r.blocks) <= CeilLines
        /\ \A n \in 1..Len(r.blocks) :
              r.blocks[n].top + r.blocks[n].height <= 0
                 => \A q \in 1..Len(r.pixels) :
                       ~(/\ r.pixels[q].index = r.blocks[n].index
                         /\ r.pixels[q].top = r.blocks[n].top)

C15_Witness ==
    \E k \in 1..Len(renders) :
        LET r == renders[k] IN
        /\ Len(r.blocks) >= 2
        /\ Len(r.blocks) = cHeight \div LINE_HEIGHT
        /\ r.blocks[Len(r.blocks)].top + r.blocks[Len(r.blocks)].height < 0
        /\ r.blocks[1].top + r.blocks[1].height = cHeight

====
